---- MODULE Spec2Model ----
(***************************************************************************)
(* Model of the greedy rectangle packing engine of                         *)
(* rectangular_packing_testing.py: class Packing with its prefix-sum       *)
(* occupancy table (content_subrect_sum) and its rectangle mapping         *)
(* (current_rectangles).                                                   *)
(*                                                                         *)
(* Every method is a pure operator over the fields of self it reads, and   *)
(* every public call is an action that applies the operator to the current *)
(* state.  A call that ends in a Python exception is a result with         *)
(* raised = TRUE; the state is then what it was when the exception left    *)
(* the method.                                                             *)
(***************************************************************************)
EXTENDS Integers, Sequences, FiniteSets, TLC

CHECK_DIST == 3

\* Bounds of the model.
MaxHeight == 2    \* canvas height ranges over 1..MaxHeight
MaxWidth == 2     \* canvas width ranges over 1..MaxWidth
MaxSide == 2      \* rectangle height and width range over 1..MaxSide
MaxQuerySide == 3 \* height and width of a queried region range over 1..MaxQuerySide
MaxOut == 2       \* positions range from -MaxOut to canvas size + MaxOut
NumIds == 2       \* rectangle ids range over 1..NumIds
MaxCommits == 2   \* number of committing calls in one run
MaxBestWidth == 3 \* canvas width ranges over 1..MaxBestWidth in runs of add_best_rectangle only
MaxNeg == 2       \* constructor arguments range from -MaxNeg on, where all are tried

VARIABLES
    height,               \* self.height
    width,                \* self.width
    content_subrect_sum,  \* self.content_subrect_sum, indexed [r, c]
    current_rectangles,   \* self.current_rectangles: id -> <<y, x, rheight, rwidth>>
    last,                 \* the call that has just returned: operation, arguments,
                          \* outcome; op = "none" between two calls
    pre,                  \* table and mapping as they were before that call (before
                          \* the first of them, when a failed add_best_rectangle is
                          \* called again)
    commits               \* number of calls that returned True so far

vars == <<height, width, content_subrect_sum, current_rectangles, last, pre,
          commits>>

Ids == 1..NumIds
Sides == 1..MaxSide
QuerySides == 1..MaxQuerySide
Ys == (0 - MaxOut)..(height + MaxOut)
Xs == (0 - MaxOut)..(width + MaxOut)

----------------------------------------------------------------------------
(* numpy / Python primitives *)

\* numpy accepts an index i on an axis of n entries when -n <= i < n.
IndexOk(i, n) == (0 - n) <= i /\ i < n

\* A negative numpy index counts from the end of the axis.
IndexWrap(i, n) == IF i < 0 THEN i + n ELSE i

\* content_subrect_sum[r, c] of a (height + 1) x (width + 1) array:
\* the cell read, or an IndexError.
TableRead(csrs, r, c) ==
    IF IndexOk(r, height + 1) /\ IndexOk(c, width + 1)
    THEN [raised |-> FALSE, val |-> csrs[IndexWrap(r, height + 1), IndexWrap(c, width + 1)]]
    ELSE [raised |-> TRUE, val |-> 0]

\* np.clip(v, lo, hi) = minimum(maximum(v, lo), hi)
clip(v, lo, hi) ==
    LET m == IF v < lo THEN lo ELSE v
    IN  IF m > hi THEN hi ELSE m

\* np.zeros((height + 1, width + 1))
ZeroTable == [r \in 0..height, c \in 0..width |-> 0]

\* the empty dict
EmptyRects == [i \in {} |-> <<0, 0, 0, 0>>]

\* d[k] = v on a dict
DictSet(d, k, v) == [i \in (DOMAIN d) \cup {k} |-> IF i = k THEN v ELSE d[i]]

----------------------------------------------------------------------------
(* Packing.get_subrect_sum *)

\* The four-term prefix-sum formula; an IndexError of any read ends it.
PrefixFormula(csrs, y, x, rheight, rwidth) ==
    LET a == TableRead(csrs, y + rheight, x + rwidth)
        b == TableRead(csrs, y, x + rwidth)
        c == TableRead(csrs, y + rheight, x)
        d == TableRead(csrs, y, x)
    IN  IF a.raised \/ b.raised \/ c.raised \/ d.raised
        THEN [raised |-> TRUE, val |-> 0, calls |-> 0, peels |-> <<>>]
        ELSE [raised |-> FALSE, val |-> a.val - b.val - c.val + d.val,
              calls |-> 0, peels |-> <<>>]

\* "return area + self.get_subrect_sum(...)": the peeled area is added to the
\* value of the recursive call, which is one more call.  peels lists the
\* margins peeled, in the order of the calls.
AddArea(margin, area, rec) ==
    [raised |-> rec.raised,
     val    |-> IF rec.raised THEN 0 ELSE area + rec.val,
     calls  |-> rec.calls + 1,
     peels  |-> <<margin>> \o rec.peels]

\* get_subrect_sum peeling the top overflow one row per call.
RECURSIVE get_subrect_sum_row_by_row(_, _, _, _, _)
get_subrect_sum_row_by_row(csrs, y, x, rheight, rwidth) ==
    IF y < 0
    THEN AddArea("top", rwidth,
                 get_subrect_sum_row_by_row(csrs, y + 1, x, rheight - 1, rwidth))
    ELSE IF x < 0
    THEN AddArea("left", (0 - x) * rheight,
                 get_subrect_sum_row_by_row(csrs, y, 0, rheight, rwidth + x))
    ELSE IF y + rheight > height
    THEN AddArea("bottom", (y + rheight - height) * rwidth,
                 get_subrect_sum_row_by_row(csrs, y, x, height - y, rwidth))
    ELSE IF x + rwidth > width
    THEN AddArea("right", (x + rwidth - width) * rheight,
                 get_subrect_sum_row_by_row(csrs, y, x, rheight, width - x))
    ELSE PrefixFormula(csrs, y, x, rheight, rwidth)

RECURSIVE get_subrect_sum(_, _, _, _, _)
get_subrect_sum(csrs, y, x, rheight, rwidth) ==
    IF y < 0
    THEN AddArea("top", (0 - y) * rwidth,
                 get_subrect_sum(csrs, 0, x, rheight + y, rwidth))
    ELSE IF x < 0
    THEN AddArea("left", (0 - x) * rheight,
                 get_subrect_sum(csrs, y, 0, rheight, rwidth + x))
    ELSE IF y + rheight > height
    THEN AddArea("bottom", (y + rheight - height) * rwidth,
                 get_subrect_sum(csrs, y, x, height - y, rwidth))
    ELSE IF x + rwidth > width
    THEN AddArea("right", (x + rwidth - width) * rheight,
                 get_subrect_sum(csrs, y, x, rheight, width - x))
    ELSE PrefixFormula(csrs, y, x, rheight, rwidth)

----------------------------------------------------------------------------
(* Packing.try_add_rect *)

\* areas = np.clip(ys - y, 0, rheight) * np.clip(xs - x, 0, rwidth) on the meshgrid
areas(y, x, rheight, rwidth) ==
    [r \in 0..height, c \in 0..width |->
        clip(r - y, 0, rheight) * clip(c - x, 0, rwidth)]

\* The update leaving the table as it is.
TableAdd_dropped(csrs, a) == csrs

\* self.content_subrect_sum += areas
TableAdd(csrs, a) == [p \in DOMAIN csrs |-> csrs[p] + a[p]]

\* try_add_rect with the mapping written before the overlap check.
try_add_rect_early_record(csrs, rects, rid, y, x, rheight, rwidth) ==
    LET s == get_subrect_sum(csrs, y, x, rheight, rwidth)
        recorded == DictSet(rects, rid, <<y, x, rheight, rwidth>>)
    IN  IF s.raised
        THEN [raised |-> TRUE, ok |-> FALSE, csrs |-> csrs, rects |-> recorded]
        ELSE IF s.val # 0
        THEN [raised |-> FALSE, ok |-> FALSE, csrs |-> csrs, rects |-> recorded]
        ELSE [raised |-> FALSE, ok |-> TRUE,
              csrs  |-> TableAdd(csrs, areas(y, x, rheight, rwidth)),
              rects |-> recorded]

\* The outcome of try_add_rect on a Packing whose fields are csrs and rects:
\* whether it raised, what it returned, and the fields afterwards.
try_add_rect(csrs, rects, rid, y, x, rheight, rwidth) ==
    LET s == get_subrect_sum(csrs, y, x, rheight, rwidth)
    IN  IF s.raised
        THEN [raised |-> TRUE, ok |-> FALSE, csrs |-> csrs, rects |-> rects]
        ELSE IF s.val # 0
        THEN [raised |-> FALSE, ok |-> FALSE, csrs |-> csrs, rects |-> rects]
        ELSE [raised |-> FALSE, ok |-> TRUE,
              csrs  |-> TableAdd(csrs, areas(y, x, rheight, rwidth)),
              rects |-> DictSet(rects, rid, <<y, x, rheight, rwidth>>)]

----------------------------------------------------------------------------
(* Packing.get_rectangle_score *)

\* The score of a position: 0 on overlap, else the occupancy of the four
\* strips of depth CHECK_DIST around the rectangle.
get_rectangle_score(csrs, y, x, rheight, rwidth) ==
    LET s     == get_subrect_sum(csrs, y, x, rheight, rwidth)
        above == get_subrect_sum(csrs, y - CHECK_DIST, x, CHECK_DIST, rwidth)
        below == get_subrect_sum(csrs, y + rheight, x, CHECK_DIST, rwidth)
        left  == get_subrect_sum(csrs, y, x - CHECK_DIST, rheight, CHECK_DIST)
        right == get_subrect_sum(csrs, y, x + rwidth, rheight, CHECK_DIST)
    IN  IF s.raised THEN [raised |-> TRUE, val |-> 0]
        ELSE IF s.val # 0 THEN [raised |-> FALSE, val |-> 0]
        ELSE IF above.raised \/ below.raised \/ left.raised \/ right.raised
        THEN [raised |-> TRUE, val |-> 0]
        ELSE [raised |-> FALSE, val |-> above.val + below.val + left.val + right.val]

----------------------------------------------------------------------------
(* Packing.get_adjacent_points *)

\* range(n) and range(lo, hi)
range(lo, hi) == lo..(hi - 1)

\* "Add edge points"
EdgePoints(rheight, rwidth) ==
    UNION { {<<y, 0>>, <<y, width - rwidth>>} : y \in range(0, height - rheight) }
    \cup
    UNION { {<<0, x>>, <<height - rheight, x>>} : x \in range(0, width - rwidth) }

\* "Add points adjacent to existing rectangles", for one rectangle
RectPoints(rect, rheight, rwidth) ==
    LET ry == rect[1]
        rx == rect[2]
        rrheight == rect[3]
        rrwidth == rect[4]
    IN  UNION { {<<y, rx - rwidth>>, <<y, rx + rrwidth>>} :
                    y \in range(ry - rheight, ry + rrheight + rheight) }
        \cup
        UNION { {<<ry - rheight, x>>, <<ry + rrheight, x>>} :
                    x \in range(rx - rwidth, rx + rrwidth + rwidth) }

\* The set of the points of good_points.
get_adjacent_points(rects, rheight, rwidth) ==
    LET points == EdgePoints(rheight, rwidth) \cup
                  UNION { RectPoints(rects[i], rheight, rwidth) : i \in DOMAIN rects }
    IN  { p \in points :
            /\ p[1] >= 0
            /\ p[1] + rheight <= height
            /\ p[2] >= 0
            /\ p[2] + rwidth <= width }

\* good_points is a list built by iterating a Python set, whose order is not
\* fixed by the language.  PointOrders is a set of orders that yields every
\* outcome of the first-seen-wins loop of add_best_rectangle: each point in
\* turn comes first, the others follow in lexicographic order.
LexLess(p, q) == p[1] < q[1] \/ (p[1] = q[1] /\ p[2] < q[2])

RECURSIVE LexSeq(_)
LexSeq(S) ==
    IF S = {} THEN <<>>
    ELSE LET m == CHOOSE m \in S : \A o \in S \ {m} : LexLess(m, o)
         IN  <<m>> \o LexSeq(S \ {m})

PointOrders(S) ==
    IF S = {} THEN { <<>> }
    ELSE { <<f>> \o LexSeq(S \ {f}) : f \in S }

----------------------------------------------------------------------------
(* Packing.add_best_rectangle *)

\* The loop over the candidates, from index i on, with the best so far.
RECURSIVE BestLoop(_, _, _, _, _, _)
BestLoop(csrs, points, i, best, rheight, rwidth) ==
    IF i > Len(points) THEN best
    ELSE LET score_here == get_rectangle_score(csrs, points[i][1], points[i][2],
                                               rheight, rwidth)
         IN  IF score_here.raised
             THEN [raised |-> TRUE, score |-> best.score, pos |-> best.pos]
             ELSE IF score_here.val > best.score
             THEN BestLoop(csrs, points, i + 1,
                           [raised |-> FALSE, score |-> score_here.val, pos |-> points[i]],
                           rheight, rwidth)
             ELSE BestLoop(csrs, points, i + 1, best, rheight, rwidth)

\* The loop leaving at the first candidate of positive score.
BestPos_first_legal(csrs, points, rheight, rwidth) ==
    LET scored == { i \in 1..Len(points) :
                      get_rectangle_score(csrs, points[i][1], points[i][2],
                                          rheight, rwidth).val > 0 }
    IN  IF scored = {}
        THEN [raised |-> FALSE, score |-> 0, pos |-> <<0, 0>>]
        ELSE LET i == CHOOSE i \in scored : \A j \in scored : i <= j
             IN  [raised |-> FALSE,
                  score |-> get_rectangle_score(csrs, points[i][1], points[i][2],
                                                rheight, rwidth).val,
                  pos |-> points[i]]

\* best_score = 0, best_pos = (0, 0), then the loop
BestPos(csrs, points, rheight, rwidth) ==
    BestLoop(csrs, points, 1, [raised |-> FALSE, score |-> 0, pos |-> <<0, 0>>],
             rheight, rwidth)

\* add_best_rectangle giving up, without trying (0, 0), when nothing scored.
add_best_rectangle_no_default(csrs, rects, points, rid, rheight, rwidth) ==
    LET best == BestPos(csrs, points, rheight, rwidth)
    IN  IF best.raised
        THEN [raised |-> TRUE, ok |-> FALSE, csrs |-> csrs, rects |-> rects]
        ELSE IF best.score = 0
        THEN [raised |-> FALSE, ok |-> FALSE, csrs |-> csrs, rects |-> rects]
        ELSE try_add_rect(csrs, rects, rid, best.pos[1], best.pos[2], rheight, rwidth)

\* add_best_rectangle placing at the best position without the overlap check
\* of try_add_rect.
add_best_rectangle_unchecked(csrs, rects, points, rid, rheight, rwidth) ==
    LET best == BestPos(csrs, points, rheight, rwidth)
    IN  [raised |-> best.raised, ok |-> FALSE,
         csrs  |-> IF best.raised THEN csrs
                   ELSE TableAdd(csrs, areas(best.pos[1], best.pos[2], rheight, rwidth)),
         rects |-> rects]

\* The outcome of add_best_rectangle when the candidates are enumerated in the
\* order of the sequence points.
\* The loop runs once: its outcome best is bound as a value, then placed.
add_best_rectangle(csrs, rects, points, rid, rheight, rwidth) ==
    LET placed(best) ==
            IF best.raised
            THEN [raised |-> TRUE, ok |-> FALSE, csrs |-> csrs, rects |-> rects]
            ELSE try_add_rect(csrs, rects, rid, best.pos[1], best.pos[2],
                              rheight, rwidth)
    IN  CHOOSE res \in { placed(best) :
                            best \in {BestPos(csrs, points, rheight, rwidth)} } : TRUE

----------------------------------------------------------------------------
(* The calls.  A call is one step; the step after it is the caller taking   *)
(* the outcome, after which the next call can be made.                      *)

Snapshot == [csrs |-> content_subrect_sum, rects |-> current_rectangles]

NoCall == [op |-> "none", rid |-> 0, y |-> 0, x |-> 0, rheight |-> 0, rwidth |-> 0,
           raised |-> FALSE, ok |-> FALSE, sum |-> 0, calls |-> 0, peels |-> <<>>,
           dup |-> FALSE, repeat |-> FALSE]

\* A placement call with outcome res: the fields of self become those of res.
\* repeat: the call is add_best_rectangle made again right after it returned
\* False for the same size.
Recorded(op, rid, y, x, rheight, rwidth, res, repeat) ==
    /\ content_subrect_sum' = res.csrs
    /\ current_rectangles' = res.rects
    /\ pre' = IF repeat THEN pre ELSE Snapshot
    /\ commits' = IF res.ok THEN commits + 1 ELSE commits
    /\ last' = [op |-> op, rid |-> rid, y |-> y, x |-> x,
                rheight |-> rheight, rwidth |-> rwidth,
                raised |-> res.raised, ok |-> res.ok, sum |-> 0, calls |-> 0,
                peels |-> <<>>,
                dup |-> (rid \in DOMAIN current_rectangles),
                repeat |-> repeat]
    /\ UNCHANGED <<height, width>>

\* A placement call of a run of at most MaxCommits committing calls.
Placed(op, rid, y, x, rheight, rwidth, res, repeat) ==
    /\ res.ok => commits < MaxCommits
    /\ Recorded(op, rid, y, x, rheight, rwidth, res, repeat)

Call_try_add_rect(rid, y, x, rheight, rwidth) ==
    /\ last.op = "none"
    /\ \E res \in {try_add_rect(content_subrect_sum, current_rectangles,
                                rid, y, x, rheight, rwidth)} :
          Placed("try_add_rect", rid, y, x, rheight, rwidth, res, FALSE)

FailedBefore(rheight, rwidth) ==
    /\ last.op = "add_best_rectangle"
    /\ ~last.raised
    /\ ~last.ok
    /\ last.rheight = rheight
    /\ last.rwidth = rwidth

Call_add_best_rectangle(rid, rheight, rwidth) ==
    /\ last.op = "none" \/ FailedBefore(rheight, rwidth)
    /\ \E points \in PointOrders(get_adjacent_points(current_rectangles,
                                                      rheight, rwidth)) :
        \E res \in {add_best_rectangle(content_subrect_sum, current_rectangles,
                                       points, rid, rheight, rwidth)} :
            Placed("add_best_rectangle", rid, 0, 0, rheight, rwidth, res,
                   FailedBefore(rheight, rwidth))

Call_get_subrect_sum(y, x, rheight, rwidth) ==
    /\ last.op = "none"
    /\ \E s \in {get_subrect_sum(content_subrect_sum, y, x, rheight, rwidth)} :
        /\ last' = [op |-> "get_subrect_sum", rid |-> 0, y |-> y, x |-> x,
                    rheight |-> rheight, rwidth |-> rwidth,
                    raised |-> s.raised, ok |-> FALSE, sum |-> s.val,
                    calls |-> s.calls, peels |-> s.peels,
                    dup |-> FALSE, repeat |-> FALSE]
        /\ pre' = Snapshot
        /\ UNCHANGED <<height, width, content_subrect_sum, current_rectangles,
                       commits>>

\* The caller has the outcome of the call and goes on.
Return ==
    /\ last.op # "none"
    /\ last' = NoCall
    /\ pre' = Snapshot
    /\ UNCHANGED <<height, width, content_subrect_sum, current_rectangles,
                   commits>>

\* Packing(height, width)
Init ==
    /\ height \in 1..MaxHeight
    /\ width \in 1..MaxWidth
    /\ content_subrect_sum = ZeroTable
    /\ current_rectangles = EmptyRects
    /\ last = NoCall
    /\ pre = [csrs |-> ZeroTable, rects |-> EmptyRects]
    /\ commits = 0

Next ==
    \/ \E rid \in Ids, y \in Ys, x \in Xs, rheight \in Sides, rwidth \in Sides :
          Call_try_add_rect(rid, y, x, rheight, rwidth)
    \/ \E rid \in Ids, rheight \in Sides, rwidth \in Sides :
          Call_add_best_rectangle(rid, rheight, rwidth)
    \/ \E y \in Ys, x \in Xs, rheight \in QuerySides, rwidth \in QuerySides :
          Call_get_subrect_sum(y, x, rheight, rwidth)
    \/ Return

Spec == Init /\ [][Next]_vars

----------------------------------------------------------------------------
(* Properties *)

Placement == {"try_add_rect", "add_best_rectangle"}

\* the rectangle recorded for id i
Rect(i) == current_rectangles[i]

\* the unit cells of a rectangle <<y, x, rheight, rwidth>>
Cells(rect) ==
    { <<r, c>> : r \in rect[1]..(rect[1] + rect[3] - 1),
                 c \in rect[2]..(rect[2] + rect[4] - 1) }

\* the unit cells of the canvas
CanvasCells == { <<r, c>> : r \in 0..(height - 1), c \in 0..(width - 1) }

\* the unit cells covered by a recorded rectangle
OccupiedCells == UNION { Cells(Rect(i)) : i \in DOMAIN current_rectangles }

RECURSIVE AreaSum(_, _)
AreaSum(rects, S) ==
    IF S = {} THEN 0
    ELSE LET i == CHOOSE i \in S : TRUE
         IN  rects[i][3] * rects[i][4] + AreaSum(rects, S \ {i})

\* every committing call so far was given an id that was not in the mapping
FreshIdsOnly == Cardinality(DOMAIN current_rectangles) = commits

\* the candidates and the scores the last add_best_rectangle call saw
LastCandidates == get_adjacent_points(pre.rects, last.rheight, last.rwidth)

LastScore(p) == get_rectangle_score(pre.csrs, p[1], p[2], last.rheight, last.rwidth).val

\* C1: with distinct ids, the half-open extents of every two rectangles
\* recorded in current_rectangles are disjoint.
C1_NoOverlap ==
    FreshIdsOnly =>
        \A i \in DOMAIN current_rectangles : \A j \in DOMAIN current_rectangles :
            i # j => Cells(Rect(i)) \cap Cells(Rect(j)) = {}

\* C2: every rectangle recorded in current_rectangles lies inside the canvas.
C2_InBounds ==
    \A i \in DOMAIN current_rectangles :
        /\ 0 <= Rect(i)[1]
        /\ Rect(i)[1] + Rect(i)[3] <= height
        /\ 0 <= Rect(i)[2]
        /\ Rect(i)[2] + Rect(i)[4] <= width

\* C3: a try_add_rect call that does not return True leaves the table and the
\* mapping as they were; one that returns True has recorded the rectangle under
\* its id, left the other entries alone, and changed the table.
C3_RejectionAtomic ==
    last.op = "try_add_rect" =>
        IF last.ok
        THEN /\ last.rid \in DOMAIN current_rectangles
             /\ Rect(last.rid) = <<last.y, last.x, last.rheight, last.rwidth>>
             /\ current_rectangles = DictSet(pre.rects, last.rid, Rect(last.rid))
             /\ content_subrect_sum # pre.csrs
        ELSE /\ content_subrect_sum = pre.csrs
             /\ current_rectangles = pre.rects

\* C3 witness: a call inside the canvas rejected for overlapping a recorded
\* rectangle.
C3_Witness ==
    /\ last.op = "try_add_rect"
    /\ ~last.ok
    /\ ~last.raised
    /\ Cells(<<last.y, last.x, last.rheight, last.rwidth>>) \subseteq CanvasCells
    /\ Cells(<<last.y, last.x, last.rheight, last.rwidth>>) \cap OccupiedCells # {}

\* C4: get_subrect_sum over the full canvas equals the sum of the areas of the
\* recorded rectangles.
C4_OccupancyConsistency ==
    LET full == get_subrect_sum(content_subrect_sum, 0, 0, height, width)
    IN  /\ ~full.raised
        /\ full.val = AreaSum(current_rectangles, DOMAIN current_rectangles)

\* C5: get_subrect_sum returns the number of cells of the region outside the
\* canvas plus the number of occupied cells of the region inside the canvas.
C5_BoundaryExtension ==
    last.op = "get_subrect_sum" =>
        LET region == Cells(<<last.y, last.x, last.rheight, last.rwidth>>)
        IN  /\ ~last.raised
            /\ last.sum = Cardinality(region \ CanvasCells)
                          + Cardinality(region \cap CanvasCells \cap OccupiedCells)

\* C6: try_add_rect and get_subrect_sum never end in an error.
C6_NoRaise ==
    last.op \in {"try_add_rect", "get_subrect_sum"} => ~last.raised

\* C7: a placement call with an id already in the mapping fails and changes
\* nothing, and no call removes or overwrites an entry of the mapping.
C7_DuplicateRejected ==
    /\ (last.op \in Placement /\ last.dup) =>
          /\ ~last.ok
          /\ content_subrect_sum = pre.csrs
          /\ current_rectangles = pre.rects
    /\ \A i \in DOMAIN pre.rects :
          i \in DOMAIN current_rectangles /\ Rect(i) = pre.rects[i]

\* C8 as stated: when add_best_rectangle returns True, the committed position
\* is a candidate of get_adjacent_points whose score before the call is at
\* least that of every candidate, and it had zero overlap.
C8_Original ==
    (last.op = "add_best_rectangle" /\ last.ok) =>
        LET pos == <<Rect(last.rid)[1], Rect(last.rid)[2]>>
        IN  /\ pos \in LastCandidates
            /\ \A q \in LastCandidates : LastScore(pos) >= LastScore(q)
            /\ get_subrect_sum(pre.csrs, pos[1], pos[2],
                               last.rheight, last.rwidth).val = 0

\* C8 amended: when add_best_rectangle returns True, the committed position had
\* zero overlap and is either a candidate whose score before the call is
\* positive and at least that of every candidate, or the default position
\* (0, 0), taken when no candidate has a positive score.
C8_PicksMaximum ==
    (last.op = "add_best_rectangle" /\ last.ok) =>
        LET pos == <<Rect(last.rid)[1], Rect(last.rid)[2]>>
        IN  /\ Rect(last.rid) = <<pos[1], pos[2], last.rheight, last.rwidth>>
            /\ get_subrect_sum(pre.csrs, pos[1], pos[2],
                               last.rheight, last.rwidth).val = 0
            /\ \/ /\ pos \in LastCandidates
                  /\ LastScore(pos) > 0
                  /\ \A q \in LastCandidates : LastScore(pos) >= LastScore(q)
               \/ /\ pos = <<0, 0>>
                  /\ \A q \in LastCandidates : LastScore(q) <= 0

\* C8 witness: a committed position that beats a candidate of positive score.
C8_Witness ==
    /\ last.op = "add_best_rectangle"
    /\ last.ok
    /\ \E q \in LastCandidates :
          /\ LastScore(q) > 0
          /\ LastScore(q) < LastScore(<<Rect(last.rid)[1], Rect(last.rid)[2]>>)

\* C9 as stated: if no candidate has a positive score, add_best_rectangle
\* returns False and leaves the table and the mapping unchanged.
C9_Original ==
    (last.op = "add_best_rectangle" /\ \A q \in LastCandidates : LastScore(q) <= 0) =>
        /\ ~last.ok
        /\ content_subrect_sum = pre.csrs
        /\ current_rectangles = pre.rects

\* C9 amended: if no candidate has a positive score, add_best_rectangle tries
\* the default position (0, 0): when get_subrect_sum(0, 0, h, w) is 0 there it
\* commits the rectangle at (0, 0) and returns True, otherwise it returns False
\* and leaves the table and the mapping unchanged.
C9_FailsWhenNothingScores ==
    (last.op = "add_best_rectangle" /\ \A q \in LastCandidates : LastScore(q) <= 0) =>
        IF get_subrect_sum(pre.csrs, 0, 0, last.rheight, last.rwidth).val = 0
        THEN /\ last.ok
             /\ last.rid \in DOMAIN current_rectangles
             /\ Rect(last.rid) = <<0, 0, last.rheight, last.rwidth>>
        ELSE /\ ~last.ok
             /\ ~last.raised
             /\ content_subrect_sum = pre.csrs
             /\ current_rectangles = pre.rects

\* C9 witness: a call that returned False with candidates, none of positive
\* score, on a canvas that holds a rectangle.
C9_Witness ==
    /\ last.op = "add_best_rectangle"
    /\ ~last.ok
    /\ pre.rects # EmptyRects
    /\ LastCandidates # {}
    /\ \A q \in LastCandidates : LastScore(q) <= 0

\* C10: add_best_rectangle called again, for the same size, after it returned
\* False returns False again, and the table and the mapping still are what they
\* were before the first failing call.
C10_IdempotentFailure ==
    (last.op = "add_best_rectangle" /\ last.repeat) =>
        /\ ~last.ok
        /\ ~last.raised
        /\ content_subrect_sum = pre.csrs
        /\ current_rectangles = pre.rects

\* C10 witness: a repeated call, with another id than the stored ones, on a
\* canvas that holds a rectangle.
C10_Witness ==
    /\ last.op = "add_best_rectangle"
    /\ last.repeat
    /\ ~last.dup
    /\ current_rectangles # EmptyRects

----------------------------------------------------------------------------
(* The driver loop: add_best_rectangle with the next id, i + 1, until a call *)
(* returns False.                                                            *)

Driver_add_best_rectangle(rheight, rwidth) ==
    /\ last.op = "none"
    /\ \E points \in PointOrders(get_adjacent_points(current_rectangles,
                                                      rheight, rwidth)) :
        \E res \in {add_best_rectangle(content_subrect_sum, current_rectangles,
                                       points, commits + 1, rheight, rwidth)} :
            Recorded("add_best_rectangle", commits + 1, 0, 0, rheight, rwidth,
                     res, FALSE)

\* "if not did_add: break": the loop goes on after a call that returned True.
Driver_continue ==
    /\ last.op = "add_best_rectangle"
    /\ last.ok
    /\ last' = NoCall
    /\ pre' = Snapshot
    /\ UNCHANGED <<height, width, content_subrect_sum, current_rectangles, commits>>

\* The scenario of a 4 x 4 canvas filled with 2 x 2 rectangles: Packing(4, 4)
Init4x4 ==
    /\ height = 4
    /\ width = 4
    /\ content_subrect_sum = ZeroTable
    /\ current_rectangles = EmptyRects
    /\ last = NoCall
    /\ pre = [csrs |-> ZeroTable, rects |-> EmptyRects]
    /\ commits = 0

Next4x4 ==
    \/ Driver_add_best_rectangle(2, 2)
    \/ Driver_continue

Spec4x4 == Init4x4 /\ [][Next4x4]_vars

\* C11: on the 4 x 4 canvas the calls with 2 x 2 rectangles return True as long
\* as fewer than four rectangles are stored, and False once four are stored.
C11_FourThenFalse ==
    last.op = "add_best_rectangle" =>
        (last.ok <=> Cardinality(DOMAIN pre.rects) < 4)

\* C12: the first rectangle placed on an empty canvas, smaller than the canvas
\* in both directions, is committed at a corner of the canvas.
C12_FirstAtCorner ==
    (/\ last.op = "add_best_rectangle"
     /\ pre.rects = EmptyRects
     /\ last.rheight < height
     /\ last.rwidth < width) =>
        /\ last.ok
        /\ last.rid \in DOMAIN current_rectangles
        /\ Rect(last.rid)[1] \in {0, height - last.rheight}
        /\ Rect(last.rid)[2] \in {0, width - last.rwidth}

----------------------------------------------------------------------------
(* Packing.__init__ with any integer arguments *)

\* np.zeros(shape) raises ValueError on a negative dimension, and on no other.
ZerosRaises(rows, cols) == rows < 0 \/ cols < 0

\* Packing(h, w): self.height and self.width are set, then np.zeros is
\* called with (h + 1, w + 1).
InitAny ==
    /\ height \in (0 - MaxNeg)..MaxHeight
    /\ width \in (0 - MaxNeg)..MaxWidth
    /\ content_subrect_sum = ZeroTable
    /\ current_rectangles = EmptyRects
    /\ last = [NoCall EXCEPT !.op = "__init__",
                             !.raised = ZerosRaises(height + 1, width + 1)]
    /\ pre = [csrs |-> ZeroTable, rects |-> EmptyRects]
    /\ commits = 0

\* The constructor returned: the caller has an instance.
Constructed ==
    /\ last.op = "__init__"
    /\ ~last.raised
    /\ last' = NoCall
    /\ UNCHANGED <<height, width, content_subrect_sum, current_rectangles,
                   pre, commits>>

NextAny ==
    \/ Constructed
    \/ (last.op # "__init__" /\ Next)

SpecAny == InitAny /\ [][NextAny]_vars

\* C13: a Packing of height <= 0 or width <= 0 is not constructed: the
\* constructor ends in an error and no call is ever made on an instance.
C13_ConstructionValidates ==
    (height <= 0 \/ width <= 0) => (last.op = "__init__" /\ last.raised)

----------------------------------------------------------------------------
(* Packing.render *)

\* The cells of the result grid that render writes an id to (ids are not 0):
\* result[py, px] for every cell of every recorded rectangle, with numpy's
\* indexing of a height x width array; an index out of range ends render with
\* an IndexError.
render(rects) ==
    LET written == UNION { Cells(rects[i]) : i \in DOMAIN rects }
    IN  IF \E p \in written : ~(IndexOk(p[1], height) /\ IndexOk(p[2], width))
        THEN [raised |-> TRUE, marked |-> {}]
        ELSE [raised |-> FALSE,
              marked |-> { <<IndexWrap(p[1], height), IndexWrap(p[2], width)>> :
                              p \in written }]

\* C14: row 0 and column 0 of the table are zero, and the table is
\* non-decreasing along each row and along each column.
C14_TableShape ==
    /\ \A c \in 0..width : content_subrect_sum[0, c] = 0
    /\ \A r \in 0..height : content_subrect_sum[r, 0] = 0
    /\ \A r \in 0..height : \A c \in 0..(width - 1) :
          content_subrect_sum[r, c] <= content_subrect_sum[r, c + 1]
    /\ \A r \in 0..(height - 1) : \A c \in 0..width :
          content_subrect_sum[r, c] <= content_subrect_sum[r + 1, c]

\* C15: each table cell [r, c] equals the number of cells that render marks
\* in [0, r) x [0, c).
C15_PrefixSumRefinement ==
    LET grid == render(current_rectangles)
    IN  /\ ~grid.raised
        /\ \A r \in 0..height : \A c \in 0..width :
              content_subrect_sum[r, c] =
                  Cardinality({ p \in grid.marked : p[1] < r /\ p[2] < c })

\* the place of a margin in the order top, left, bottom, right
MarginRank(margin) ==
    CASE margin = "top" -> 1
      [] margin = "left" -> 2
      [] margin = "bottom" -> 3
      [] margin = "right" -> 4

\* C16: get_subrect_sum makes at most four recursive calls before the
\* prefix-sum formula, at most one for each margin, in the order top, left,
\* bottom, right.
C16_BoundedPeeling ==
    last.op = "get_subrect_sum" =>
        /\ last.calls <= 4
        /\ Len(last.peels) = last.calls
        /\ \A i \in 1..Len(last.peels) : \A j \in 1..Len(last.peels) :
              i < j => MarginRank(last.peels[i]) < MarginRank(last.peels[j])

\* C16 witness: a query that peeled all four margins and returned a number,
\* on a canvas that holds a rectangle inside it.
C16_Witness ==
    /\ last.op = "get_subrect_sum"
    /\ last.calls = 4
    /\ ~last.raised
    /\ \E i \in DOMAIN current_rectangles : Cells(Rect(i)) \subseteq CanvasCells

----------------------------------------------------------------------------------------------------------------------------------------
(* Runs of add_best_rectangle calls only, with any id the caller passes *)

\* add_best_rectangle(rid, rheight, rwidth), as often as the caller likes
Best_add_best_rectangle(rid, rheight, rwidth) ==
    /\ last.op = "none"
    /\ \E points \in PointOrders(get_adjacent_points(current_rectangles,
                                                      rheight, rwidth)) :
        \E res \in {add_best_rectangle(content_subrect_sum, current_rectangles,
                                       points, rid, rheight, rwidth)} :
            Recorded("add_best_rectangle", rid, 0, 0, rheight, rwidth, res, FALSE)

\* Packing(height, width) on canvases up to MaxHeight x MaxBestWidth
InitBest ==
    /\ height \in 1..MaxHeight
    /\ width \in 1..MaxBestWidth
    /\ content_subrect_sum = ZeroTable
    /\ current_rectangles = EmptyRects
    /\ last = NoCall
    /\ pre = [csrs |-> ZeroTable, rects |-> EmptyRects]
    /\ commits = 0

NextBest ==
    \/ \E rid \in Ids, rheight \in Sides, rwidth \in Sides :
          Best_add_best_rectangle(rid, rheight, rwidth)
    \/ Return

SpecBest == InitBest /\ [][NextBest]_vars

\* the positions at which, before the last call, a rectangle of its size lay
\* inside the canvas, on no rectangle of the mapping and on no cell the table
\* counts as occupied
LegalPositions ==
    { p \in (0..(height - last.rheight)) \X (0..(width - last.rwidth)) :
        /\ \A i \in DOMAIN pre.rects :
              Cells(<<p[1], p[2], last.rheight, last.rwidth>>)
                  \cap Cells(pre.rects[i]) = {}
        /\ get_subrect_sum(pre.csrs, p[1], p[2], last.rheight, last.rwidth).val = 0 }

\* C17: in a state reached by add_best_rectangle calls only, a call returns
\* True whenever some position exists where the rectangle lies inside the
\* canvas and overlaps no committed rectangle.
C17_FeasibilityComplete ==
    (last.op = "add_best_rectangle" /\ LegalPositions # {}) => last.ok

----------------
(* The driver loop with arbitrary sizes *)

NextDriver ==
    \/ \E rheight \in Sides, rwidth \in Sides :
          Driver_add_best_rectangle(rheight, rwidth)
    \/ Driver_continue

\* The program is the only thread: as long as the loop can take a step, it does.
SpecDriver == Init /\ [][NextDriver]_vars /\ WF_vars(NextDriver)

\* the occupancy of the full canvas according to the table csrs
FullSum(csrs) == get_subrect_sum(csrs, 0, 0, height, width).val

\* a call of the loop returned False: the loop has ended
DriverStopped == last.op = "add_best_rectangle" /\ ~last.ok /\ ~last.raised

\* the number of successful placements and the occupancy stay within the
\* canvas area, and a successful call raises the occupancy by its area
DriverWithinArea ==
    /\ commits <= height * width
    /\ FullSum(content_subrect_sum) <= height * width
    /\ (last.op = "add_best_rectangle" /\ last.ok) =>
          FullSum(content_subrect_sum)
              = FullSum(pre.csrs) + last.rheight * last.rwidth

\* C18: the driver loop gets False eventually, after at most height * width
\* successful placements, each of which raises the occupancy of the canvas by
\* the area of its rectangle.
C18_DriverTerminates == []DriverWithinArea /\ <>DriverStopped

\* C18 witness: the loop ended after height * width successful placements on
\* a canvas of more than one cell.
C18_Witness ==
    /\ DriverStopped
    /\ commits = height * width
    /\ height * width > 1

====
